---------------------------- MODULE Spec2Model ----------------------------
(***************************************************************************)
(* A model of the gene-disease extraction pipeline: the generic-term       *)
(* filter (_is_generic), the gene-disease linker (associate_diseases), the *)
(* gene mention extractor (extract_genes), the article fetcher             *)
(* (get_article_text), the enrichment helpers and the driver (main).       *)
(*                                                                         *)
(* Text is a sequence of one-character strings; an offset pair <<s, e>>    *)
(* is Python's half-open [s, e) with 0-based s.                            *)
(***************************************************************************)
EXTENDS Integers, Sequences, FiniteSets, TLC

VARIABLES
    term,       \* _is_generic: the argument
    generic,    \* _is_generic: <<>> before the call, then <<b>> for the BOOLEAN b returned
    genes,      \* associate_diseases: the gene list (records, in list order)
    ent,        \* associate_diseases: the doc.ents span of the last loop iteration
    n_ents,     \* associate_diseases: how many spans the loop has processed
    genes0,     \* history: the gene list as the last loop iteration found it
    text,       \* extract_genes: the argument; main: the article text
    gene_list,  \* extract_genes: <<>> before the call, then <<the list returned>>
    doc_sents,  \* the parsed document: list(doc.sents), as offset records
    doc_ents,   \* the parsed document: doc.ents
    pc,         \* main: the statement the run is at
    identifier, \* main: args.input
    requests,   \* main: the Europe PMC requests sent so far
    error,      \* main: the exception that ended the run, "" if none
    gi,         \* main: the position of the loop over genes (lines 32-51)
    results,    \* main: the GeneInfo rows collected
    csv,        \* the output file: <<>> if not written, else <<rows>>
    meta,       \* history: the answers and the result of the last fetch_gene_metadata
    loader      \* process_gene_data: the state of one run of the SQLite loader (a record)

genericVars == <<term, generic>>
linkVars == <<genes, ent, n_ents, genes0, doc_sents>>
mainVars == <<doc_ents, pc, identifier, requests, error, gi, results, csv, meta>>
extractVars == <<text, gene_list>>
vars == <<term, generic, genes, ent, n_ents, genes0, doc_sents, text, gene_list,
          doc_ents, pc, identifier, requests, error, gi, results, csv, meta, loader>>

(***************************************************************************)
(* Python string primitives over character sequences.                      *)
(***************************************************************************)
UpperAlpha == <<"A","B","C","D","E","F","G","H","I","J","K","L","M",
                "N","O","P","Q","R","S","T","U","V","W","X","Y","Z">>
LowerAlpha == <<"a","b","c","d","e","f","g","h","i","j","k","l","m",
                "n","o","p","q","r","s","t","u","v","w","x","y","z">>

IsUpperCh(c) == \E i \in DOMAIN UpperAlpha : UpperAlpha[i] = c
IsLowerCh(c) == \E i \in DOMAIN LowerAlpha : LowerAlpha[i] = c
IsDigitCh(c) == c \in {"0","1","2","3","4","5","6","7","8","9"}

\* str.lower() / str.upper() on one character
LowerCh(c) == IF IsUpperCh(c)
              THEN LowerAlpha[CHOOSE i \in DOMAIN UpperAlpha : UpperAlpha[i] = c]
              ELSE c
UpperCh(c) == IF IsLowerCh(c)
              THEN UpperAlpha[CHOOSE i \in DOMAIN LowerAlpha : LowerAlpha[i] = c]
              ELSE c

\* str.lower(), str.upper()
lower(s) == [i \in 1..Len(s) |-> LowerCh(s[i])]
upper(s) == [i \in 1..Len(s) |-> UpperCh(s[i])]

\* str.isupper(): at least one cased character and no lower-case one
isupper(s) == /\ \E i \in 1..Len(s) : IsUpperCh(s[i])
              /\ \A i \in 1..Len(s) : ~IsLowerCh(s[i])

\* str.isdigit(): non-empty, digits only
isdigit(s) == Len(s) > 0 /\ \A i \in 1..Len(s) : IsDigitCh(s[i])

\* str.endswith(suf), str.startswith(pre)
endswith(s, suf) == /\ Len(s) >= Len(suf)
                    /\ SubSeq(s, Len(s) - Len(suf) + 1, Len(s)) = suf
startswith(s, pre) == /\ Len(s) >= Len(pre)
                      /\ SubSeq(s, 1, Len(pre)) = pre

\* str.strip(chars): drop the leading and trailing characters that are in chars
strip(s, chars) ==
    LET keep  == {i \in 1..Len(s) : s[i] \notin chars}
        first == CHOOSE i \in keep : \A j \in keep : i <= j
        last  == CHOOSE i \in keep : \A j \in keep : i >= j
    IN  IF keep = {} THEN <<>> ELSE SubSeq(s, first, last)

\* str.strip(): the whitespace of the model's alphabet is the blank
Whitespace == {" "}

\* re.split(r"[\s-]+", s): the pieces between maximal runs of blanks and hyphens;
\* a run at either end of s leaves an empty piece there, as in Python.
SplitChars == Whitespace \cup {"-"}

RECURSIVE SplitFrom(_, _, _, _)
SplitFrom(s, i, cur, inRun) ==
    IF i > Len(s) THEN <<cur>>
    ELSE IF s[i] \in SplitChars
         THEN IF inRun THEN SplitFrom(s, i + 1, cur, TRUE)
              ELSE <<cur>> \o SplitFrom(s, i + 1, <<>>, TRUE)
         ELSE SplitFrom(s, i + 1, Append(cur, s[i]), FALSE)

re_split(s) == SplitFrom(s, 1, <<>>, FALSE)

(***************************************************************************)
(* Words of the model's texts.                                             *)
(***************************************************************************)
W_disease  == <<"d","i","s","e","a","s","e">>
W_syndrome == <<"s","y","n","d","r","o","m","e">>
W_disorder == <<"d","i","s","o","r","d","e","r">>
KW_syndrome == <<" ">> \o W_syndrome          \* the literal " syndrome"

W_single   == <<"s","i","n","g","l","e">>
W_system   == <<"s","y","s","t","e","m">>
W_multi    == <<"m","u","l","t","i">>
W_multisystem == W_multi \o W_system
W_systemic == W_system \o <<"i","c">>
W_common   == <<"c","o","m","m","o","n">>
W_rare     == <<"r","a","r","e">>
W_genetic  == <<"g","e","n","e","t","i","c">>
W_hereditary == <<"h","e","r","e","d","i","t","a","r","y">>
W_familial == <<"f","a","m","i","l","i","a","l">>
W_unknown  == <<"u","n","k","n","o","w","n">>
W_autosomal == <<"a","u","t","o","s","o","m","a","l">>
W_dominant == <<"d","o","m","i","n","a","n","t">>
W_recessive == <<"r","e","c","e","s","s","i","v","e">>
W_tall     == <<"t","a","l","l">>
W_stature  == <<"s","t","a","t","u","r","e">>
W_short    == <<"s","h","o","r","t">>

GENERIC_PARTS ==
    { W_single, W_system, W_single \o <<"-">> \o W_system, W_multi, W_multisystem,
      W_multi \o <<"-">> \o W_system, W_systemic, W_common, W_rare, W_genetic,
      W_hereditary, W_familial, W_unknown,
      W_autosomal, W_dominant, W_recessive, W_tall, W_stature, W_short }

Keywords == <<W_disease, W_syndrome, W_disorder>>

AllGeneric(parts) == \A i \in 1..Len(parts) : parts[i] \in GENERIC_PARTS

\* lines 43-51: the first keyword the lower-cased term ends with that decides
\* (Python's for loop returns True inside the loop or falls through).
KeywordSaysGeneric(t) ==
    \E k \in 1..Len(Keywords) :
        /\ endswith(t, Keywords[k])
        /\ LET prefix == strip(SubSeq(t, 1, Len(t) - Len(Keywords[k])),
                               {" ", "-", ";", ","})
           IN  IF prefix # <<>> THEN AllGeneric(re_split(prefix)) ELSE TRUE

\* (mutant) the prefix is tested after lower-casing, so no acronym is recognised
NamedSyndromeLowered(orig) ==
    /\ endswith(orig, KW_syndrome)
    /\ LET prefix == strip(SubSeq(orig, 1, Len(orig) - Len(KW_syndrome)),
                           {" ", ",", ";", ":", "-"})
       IN  prefix # <<>> /\ isupper(lower(prefix))

\* lines 35-38: an upper-case prefix before " syndrome" names a syndrome
NamedSyndrome(orig) ==
    /\ endswith(orig, KW_syndrome)
    /\ LET prefix == strip(SubSeq(orig, 1, Len(orig) - Len(KW_syndrome)),
                           {" ", ",", ";", ":", "-"})
       IN  prefix # <<>> /\ isupper(prefix)

\* (mutant) the rule for one or two generic words (lines 52-56) is missing
_is_generic_keywords_only(t0) ==
    LET orig == strip(t0, Whitespace)
        t    == lower(orig)
    IN  IF NamedSyndrome(orig) THEN FALSE
        ELSE IF t \in {W_disease, W_syndrome, W_disorder} THEN TRUE
        ELSE KeywordSaysGeneric(t)

_is_generic(t0) ==
    LET orig == strip(t0, Whitespace)
        t    == lower(orig)
    IN  IF NamedSyndrome(orig) THEN FALSE
        ELSE IF t \in {W_disease, W_syndrome, W_disorder} THEN TRUE
        ELSE IF KeywordSaysGeneric(t) THEN TRUE
        ELSE LET parts == re_split(t)
             IN  Len(parts) <= 2 /\ AllGeneric(parts)

(***************************************************************************)
(* The terms _is_generic is applied to: up to MaxWords words of Vocabulary *)
(* joined by Separators.                                                   *)
(***************************************************************************)
MaxWords == 3

W_SHORT  == upper(W_short)
W_RARE   == upper(W_rare)
W_Marfan == <<"M","a","r","f","a","n">>
W_ALS    == <<"A","L","S">>

Vocabulary == {W_disease, W_syndrome, W_rare, W_short, W_SHORT, W_RARE, W_Marfan, W_ALS}
Separators == {<<" ">>, <<"-">>, <<",", " ">>}

RECURSIVE TermsOf(_)
TermsOf(n) ==
    IF n <= 1 THEN Vocabulary
    ELSE LET shorter == TermsOf(n - 1)
         IN  shorter \cup {t \o s \o w : t \in shorter, s \in Separators, w \in Vocabulary}

Terms == TermsOf(MaxWords)

MainIdle ==
    /\ doc_ents = <<>> /\ pc = "idle" /\ identifier = <<>> /\ requests = <<>>
    /\ error = "" /\ gi = 0 /\ results = <<>> /\ csv = <<>> /\ meta = <<>>

NoEnt == [label |-> "none"]

\* no run of the loader
NoLoader == [pc |-> "idle"]

InitGeneric ==
    /\ term \in Terms
    /\ generic = <<>>
    /\ genes = <<>>
    /\ ent = NoEnt
    /\ n_ents = 0
    /\ genes0 = <<>>
    /\ text = <<>>
    /\ gene_list = <<>>
    /\ doc_sents = <<>>
    /\ MainIdle
    /\ loader = NoLoader

\* one call of _is_generic(term)
CallIsGeneric ==
    /\ generic = <<>>
    /\ generic' = <<_is_generic(term)>>
    /\ UNCHANGED <<term, linkVars, extractVars, mainVars>>
    /\ UNCHANGED loader

NextGeneric == CallIsGeneric

SpecGeneric == InitGeneric /\ [][NextGeneric]_vars

\* C6: an all-upper-case acronym, one blank and the word syndrome is never generic,
\* also when the acronym lower-cased is a generic qualifier (SHORT, RARE).
Acronyms == {w \in Vocabulary : \A i \in 1..Len(w) : IsUpperCh(w[i])}
AcronymSyndromes == {a \o <<" ">> \o W_syndrome : a \in Acronyms}
C6_AcronymSyndromeNotGeneric ==
    (generic # <<>> /\ term \in AcronymSyndromes) => generic = <<FALSE>>

C6_Witness ==
    /\ term = W_SHORT \o <<" ">> \o W_syndrome
    /\ lower(W_SHORT) \in GENERIC_PARTS
    /\ generic = <<FALSE>>

(***************************************************************************)
(* associate_diseases.  The document is NumSents sentences of SentLen      *)
(* characters; gene mentions are MentionLen and NER spans EntLen wide.     *)
(***************************************************************************)
NumSents    == 3
SentLen     == 3
MentionLen  == 1
EntLen      == 1
NumGenes    == 2
MaxMentions == 3
MaxEnts     == 1

TextLen == NumSents * SentLen

\* the document of the linker's own runs: NumSents sentences of SentLen characters
LinkSentences == [k \in 1..NumSents |->
                     [start_char |-> (k - 1) * SentLen, end_char |-> k * SentLen]]

\* sentences = list(doc.sents)
sentences == doc_sents

\* ent.sent: the sentence the span starts in
ent_sent(e) ==
    sentences[CHOOSE k \in 1..Len(sentences) :
                 /\ sentences[k].start_char <= e.start_char
                 /\ e.start_char < sentences[k].end_char]

\* "hgnc_id": None
NoHgncId == -1

GeneSymbols == <<"BRCA1", "TP53", "CFTR", "MYH7", "PTEN">>

\* genes[symbol]["mentions"].append(...) on the insertion-ordered dict of extract_genes
add_mention(gs, sym, hgnc, span) ==
    IF \E i \in 1..Len(gs) : gs[i].symbol = sym
    THEN LET i == CHOOSE i \in 1..Len(gs) : gs[i].symbol = sym
         IN  [gs EXCEPT ![i].mentions = Append(@, span),
                        ![i].hgnc_id = IF @ = NoHgncId THEN hgnc ELSE @]
    ELSE Append(gs, [symbol |-> sym, hgnc_id |-> hgnc,
                     mentions |-> <<span>>, diseases |-> {}])

MentionSpans == {<<p, p + MentionLen>> : p \in 0..(TextLen - MentionLen)}

\* The gene lists extract_genes can hand over: up to n mentions of up to NumGenes
\* symbols, the symbols numbered in order of first appearance.
RECURSIVE GeneListsOf(_)
GeneListsOf(n) ==
    IF n = 0 THEN {<<>>}
    ELSE LET fewer == GeneListsOf(n - 1)
         IN  fewer \cup UNION
             {{add_mention(gs, GeneSymbols[i], NoHgncId, sp) :
                  i \in 1..(IF Len(gs) < NumGenes THEN Len(gs) + 1 ELSE NumGenes),
                  sp \in MentionSpans} : gs \in fewer}

\* is_valid_disease_name: each lookup answers "hit", "miss" or "error" (an exception)
LookupAnswers == {"hit", "miss", "error"}
is_valid_disease_name(name, resp) ==
    LET query == strip(name, Whitespace)
    IN  IF query = <<>> THEN FALSE
        ELSE IF resp.medgen = "hit" THEN TRUE
        ELSE IF resp.mesh = "hit" THEN TRUE
        ELSE IF resp.ols = "hit" THEN TRUE
        ELSE FALSE

\* disease_name = ent.text.strip().strip('.,;:')
disease_name(e) == strip(strip(e.text, Whitespace), {".", ",", ";", ":"})

\* m_start >= sent_start and m_end <= sent_end
within(m, s) == m[1] >= s.start_char /\ m[2] <= s.end_char

has_mention_in(g, s) == \E k \in 1..Len(g.mentions) : within(g.mentions[k], s)

\* lines 203-209: the indices of the genes with a mention in the sentence, in list order
genes_in_sentence(gs, s) ==
    LET F[i \in 0..Len(gs)] ==
            IF i = 0 THEN <<>>
            ELSE IF has_mention_in(gs[i], s) THEN Append(F[i - 1], i) ELSE F[i - 1]
    IN  F[Len(gs)]

\* (mutant) the last mention of the gene inside the sentence
last_mention_in(g, s) ==
    g.mentions[CHOOSE k \in 1..Len(g.mentions) :
                  /\ within(g.mentions[k], s)
                  /\ \A j \in 1..Len(g.mentions) : within(g.mentions[j], s) => j <= k]

\* lines 217-224: the mention the distance is taken from is the first one, in list
\* order, inside the sentence (the inner loop breaks after it)
first_mention_in(g, s) ==
    g.mentions[CHOOSE k \in 1..Len(g.mentions) :
                  /\ within(g.mentions[k], s)
                  /\ \A j \in 1..Len(g.mentions) : within(g.mentions[j], s) => k <= j]

Abs(x) == IF x < 0 THEN -x ELSE x

\* twice abs(gene_center - disease_center): the code's midpoints are halves
dist2(m, e) == Abs((m[1] + m[2]) - (e.start_char + e.end_char))

\* (mutant) a later gene at the same distance replaces the earlier one
closer_or_equal(d, min_distance) == d <= min_distance

\* dist < min_distance
closer(d, min_distance) == d < min_distance

\* lines 212-224: the loop over genes_in_sentence; closest = 0 is None, and then
\* min_distance is float('inf')
RECURSIVE closest_from(_, _, _, _, _, _, _)
closest_from(gs, cands, k, e, s, closest, min_distance) ==
    IF k > Len(cands) THEN closest
    ELSE LET d == dist2(first_mention_in(gs[cands[k]], s), e)
         IN  IF closest = 0 \/ closer(d, min_distance)
             THEN closest_from(gs, cands, k + 1, e, s, cands[k], d)
             ELSE closest_from(gs, cands, k + 1, e, s, closest, min_distance)

closest_gene(gs, cands, e, s) == closest_from(gs, cands, 1, e, s, 0, 0)

\* {gene["symbol"] for gene in genes for (ms, me) in gene["mentions"] if ...}
symbols_in(gs, s) == {gs[i].symbol : i \in {j \in 1..Len(gs) : has_mention_in(gs[j], s)}}

\* next(g for g in genes if g["symbol"] == sym)
gene_of(gs, sym) ==
    CHOOSE i \in 1..Len(gs) : gs[i].symbol = sym /\ \A j \in 1..(i - 1) : gs[j].symbol # sym

\* (mutant) any gene at all in the adjacent sentence is taken
some_gene(symbols) == Cardinality(symbols) >= 1

\* len(prev_genes) == 1
exactly_one(symbols) == Cardinality(symbols) = 1

\* lines 229-233: the index (from 1) of the sentence starting at sent_start, 0 for None
sent_index(s) ==
    IF \E i \in 1..Len(sentences) : sentences[i].start_char = s.start_char
    THEN CHOOSE i \in 1..Len(sentences) :
            /\ sentences[i].start_char = s.start_char
            /\ \A j \in 1..(i - 1) : sentences[j].start_char # s.start_char
    ELSE 0

\* the gene an adjacent sentence yields: its only symbol's gene, else 0 (None)
unique_gene_in(gs, s) ==
    LET syms == symbols_in(gs, s)
    IN  IF exactly_one(syms) THEN gene_of(gs, CHOOSE x \in syms : TRUE) ELSE 0

\* (mutant) the following sentence is asked first
linked_gene_next_first(gs, idx) ==
    LET nxt == IF idx < Len(sentences) THEN unique_gene_in(gs, sentences[idx + 1]) ELSE 0
    IN  IF nxt # 0 THEN nxt
        ELSE IF idx > 1 THEN unique_gene_in(gs, sentences[idx - 1]) ELSE 0

\* (mutant) the window is two sentences wide on either side
linked_gene_wide(gs, idx) ==
    LET prev  == IF idx > 1 THEN unique_gene_in(gs, sentences[idx - 1]) ELSE 0
        nxt   == IF idx < Len(sentences) THEN unique_gene_in(gs, sentences[idx + 1]) ELSE 0
        prev2 == IF idx > 2 THEN unique_gene_in(gs, sentences[idx - 2]) ELSE 0
        nxt2  == IF idx + 1 < Len(sentences) THEN unique_gene_in(gs, sentences[idx + 2]) ELSE 0
    IN  IF prev # 0 THEN prev
        ELSE IF nxt # 0 THEN nxt
        ELSE IF prev2 # 0 THEN prev2
        ELSE nxt2

\* lines 236-255: the preceding sentence first, the following one only if not linked
linked_gene(gs, idx) ==
    LET prev == IF idx > 1 THEN unique_gene_in(gs, sentences[idx - 1]) ELSE 0
    IN  IF prev # 0 THEN prev
        ELSE IF idx < Len(sentences) THEN unique_gene_in(gs, sentences[idx + 1]) ELSE 0

\* gene.setdefault("diseases", set()).add(disease_name)
add_disease(gs, i, name) == [gs EXCEPT ![i].diseases = @ \cup {name}]

\* the DISEASE spans that pass the filters of lines 193-199
accepted(e) ==
    /\ e.label = "DISEASE"
    /\ disease_name(e) # <<>>
    /\ ~_is_generic(disease_name(e))
    /\ is_valid_disease_name(disease_name(e), e.lookup)

\* one iteration of the loop over doc.ents (lines 192-257)
associate_ent(gs, e) ==
    IF ~accepted(e) THEN gs
    ELSE LET s     == ent_sent(e)
             cands == genes_in_sentence(gs, s)
         IN  IF cands # <<>>
             THEN add_disease(gs, closest_gene(gs, cands, e, s), disease_name(e))
             ELSE LET idx == sent_index(s)
                  IN  IF idx = 0 THEN gs
                      ELSE LET g == linked_gene(gs, idx)
                           IN  IF g # 0 THEN add_disease(gs, g, disease_name(e)) ELSE gs

(***************************************************************************)
(* The inputs of the linker.                                               *)
(***************************************************************************)
W_gout == <<"g","o","u","t">>

Hit     == [medgen |-> "error", mesh |-> "miss", ols |-> "hit"]
NoHit   == [medgen |-> "miss", mesh |-> "error", ols |-> "miss"]

EntStarts == 0..(TextLen - EntLen)

Span(lbl, txt, p, resp) ==
    [label |-> lbl, text |-> txt, start_char |-> p, end_char |-> p + EntLen,
     lookup |-> resp]

\* named diseases, found or not by the lookups
NamedTexts == {W_gout, W_ALS \o <<".">>}
\* texts the filter has to judge
JudgedTexts == {W_disease \o <<".">>, W_rare \o <<" ">> \o W_disease,
                W_autosomal \o <<" ">> \o W_recessive,
                W_SHORT \o <<" ">> \o W_syndrome, <<".">>}

LinkEnts ==
    {Span("DISEASE", t, p, r) : t \in NamedTexts, p \in EntStarts, r \in {Hit, NoHit}}
    \cup {Span("DISEASE", t, p, Hit) : t \in JudgedTexts, p \in EntStarts}
    \cup {Span("CHEMICAL", W_gout, p, Hit) : p \in EntStarts}

InitLink ==
    /\ genes \in GeneListsOf(MaxMentions)
    /\ ent = NoEnt
    /\ n_ents = 0
    /\ genes0 = genes
    /\ term = <<>>
    /\ generic = <<>>
    /\ text = <<>>
    /\ gene_list = <<>>
    /\ doc_sents = LinkSentences
    /\ MainIdle
    /\ loader = NoLoader

AssociateStep ==
    /\ n_ents < MaxEnts
    /\ \E e \in LinkEnts :
          /\ ent' = e
          /\ genes' = associate_ent(genes, e)
    /\ n_ents' = n_ents + 1
    /\ genes0' = genes
    /\ UNCHANGED <<genericVars, extractVars, doc_sents, mainVars>>
    /\ UNCHANGED loader

NextLink == AssociateStep

SpecLink == InitLink /\ [][NextLink]_vars

(***************************************************************************)
(* The whole loop over doc.ents: the spans of a document in the order of   *)
(* the text, processed one per step.  doc_ents is the list, n_ents the     *)
(* length of the prefix processed, ent the span processed last.            *)
(***************************************************************************)
MaxSpans == 2
PrefixMentions == 2

PrefixEnts ==
    {Span("DISEASE", t, p, Hit) : t \in NamedTexts, p \in EntStarts}
    \cup {Span("DISEASE", W_gout, 0, NoHit),
          Span("DISEASE", W_disease \o <<".">>, 0, Hit),
          Span("CHEMICAL", W_gout, 0, Hit)}

\* doc.ents: up to n spans that do not overlap, in the order of the text
RECURSIVE EntListsOf(_)
EntListsOf(n) ==
    IF n = 0 THEN {<<>>}
    ELSE LET shorter == EntListsOf(n - 1)
         IN  shorter \cup
             {Append(es, e) : es \in shorter, e \in PrefixEnts}

InitPrefix ==
    /\ genes \in GeneListsOf(PrefixMentions)
    /\ doc_ents \in {es \in EntListsOf(MaxSpans) :
                        /\ es # <<>>
                        /\ \A k \in 1..(Len(es) - 1) : es[k].end_char <= es[k + 1].start_char}
    /\ doc_sents = LinkSentences
    /\ ent = NoEnt
    /\ n_ents = 0
    /\ genes0 = genes
    /\ term = <<>> /\ generic = <<>> /\ text = <<>> /\ gene_list = <<>>
    /\ pc = "idle" /\ identifier = <<>> /\ requests = <<>> /\ error = ""
    /\ gi = 0 /\ results = <<>> /\ csv = <<>> /\ meta = <<>>
    /\ loader = NoLoader

\* one iteration of "for ent in doc.ents"
ProcessSpan ==
    /\ n_ents < Len(doc_ents)
    /\ ent' = doc_ents[n_ents + 1]
    /\ genes' = associate_ent(genes, doc_ents[n_ents + 1])
    /\ genes0' = genes
    /\ n_ents' = n_ents + 1
    /\ UNCHANGED <<genericVars, extractVars, doc_sents, doc_ents, pc, identifier, requests,
                   error, gi, results, csv, meta>>
    /\ UNCHANGED loader

NextPrefix == ProcessSpan

SpecPrefix == InitPrefix /\ [][NextPrefix]_vars


(***************************************************************************)
(* extract_genes.  The two regular expressions are matched on the          *)
(* characters; offsets handed out are Python's (from 0, end exclusive),    *)
(* positions inside the matchers count from 1.                             *)
(***************************************************************************)
IsSpaceCh(c) == c \in Whitespace
\* \w, for \b
IsWordCh(c) == IsUpperCh(c) \/ IsLowerCh(c) \/ IsDigitCh(c) \/ c = "_"
\* [A-Z0-9-], and the same under re.IGNORECASE
IsSymbolCh(c) == IsUpperCh(c) \/ IsDigitCh(c) \/ c = "-"
IsSymbolChAnyCase(c) == IsSymbolCh(c) \/ IsLowerCh(c)

\* \b before position i (1..Len(t)+1)
boundary(t, i) ==
    (i > 1 /\ IsWordCh(t[i - 1])) # (i <= Len(t) /\ IsWordCh(t[i]))

\* the end (exclusive) of the longest run of characters of a class starting at i
in_class(cls, c) ==
    CASE cls = "space"       -> IsSpaceCh(c)
      [] cls = "symbol"      -> IsSymbolCh(c)
      [] cls = "symbol_any"  -> IsSymbolChAnyCase(c)

run_end(t, i, cls) ==
    IF \E j \in i..Len(t) : ~in_class(cls, t[j])
    THEN CHOOSE j \in i..Len(t) :
             ~in_class(cls, t[j]) /\ \A h \in i..(j - 1) : in_class(cls, t[h])
    ELSE Len(t) + 1

\* int(match.group(2))
DigitValue(c) == CHOOSE v \in 0..9 : <<"0","1","2","3","4","5","6","7","8","9">>[v + 1] = c
RECURSIVE to_int(_)
to_int(ds) == IF ds = <<>> THEN 0
              ELSE 10 * to_int(SubSeq(ds, 1, Len(ds) - 1)) + DigitValue(ds[Len(ds)])

NoMatch == [found |-> FALSE]
W_HGNC == <<"H","G","N","C",":">>

\* \b([A-Z0-9-]+)\s*\([^)]*HGNC:(\d+)\) tried at position i
explicit_at(t, i) ==
    LET e == run_end(t, i, "symbol")             \* end of group 1
        p == run_end(t, e, "space")              \* the "(" is expected here
    IN  IF ~(i <= Len(t) /\ boundary(t, i) /\ e > i /\ p <= Len(t)) THEN NoMatch
        ELSE IF t[p] # "(" \/ ~(\E c \in (p + 1)..Len(t) : t[c] = ")") THEN NoMatch
        ELSE LET c  == CHOOSE c \in (p + 1)..Len(t) :
                          t[c] = ")" /\ \A h \in (p + 1)..(c - 1) : t[h] # ")"
                 ds == CHOOSE d \in (p + 1)..c :
                          /\ \A h \in d..(c - 1) : IsDigitCh(t[h])
                          /\ d > p + 1 => ~IsDigitCh(t[d - 1])
             IN  IF ds < c /\ ds - 5 >= p + 1 /\ SubSeq(t, ds - 5, ds - 1) = W_HGNC
                 THEN [found |-> TRUE, group1 |-> SubSeq(t, i, e - 1),
                       start1 |-> i - 1, end1 |-> e - 1,
                       group2 |-> SubSeq(t, ds, c - 1), stop |-> c + 1]
                 ELSE NoMatch

ContextKeywords ==
    << <<"v","a","r","i","a","n","t">>, <<"v","a","r","i","a","n","t","s">>,
       <<"m","u","t","a","t","i","o","n">>, <<"m","u","t","a","t","i","o","n","s">>,
       <<"v","u","s">>, <<"v","u","s","s">> >>

\* the literal w, in any letter case, at position i
literal_at(t, i, w) ==
    i + Len(w) - 1 <= Len(t) /\ lower(SubSeq(t, i, i + Len(w) - 1)) = w

\* ([A-Z0-9-]+)\b under IGNORECASE at position i: the longest run prefix that ends
\* at a word boundary; 0 when there is none
symbol_end(t, i) ==
    LET r    == run_end(t, i, "symbol_any")
        ends == {g \in (i + 1)..r : boundary(t, g)}
    IN  IF ends = {} THEN 0 ELSE CHOOSE g \in ends : \A h \in ends : h <= g

\* (?:the\s+|a\s+)? then the symbol, from position q: where the symbol starts
\* (the article is tried first, and given up if no symbol follows it); 0 for no match
symbol_start(t, q) ==
    LET after(w) == IF literal_at(t, q, w)
                       /\ run_end(t, q + Len(w), "space") > q + Len(w)
                       /\ symbol_end(t, run_end(t, q + Len(w), "space")) # 0
                    THEN run_end(t, q + Len(w), "space") ELSE 0
    IN  IF after(<<"t","h","e">>) # 0 THEN after(<<"t","h","e">>)
        ELSE IF after(<<"a">>) # 0 THEN after(<<"a">>)
        ELSE IF symbol_end(t, q) # 0 THEN q ELSE 0

\* the rest of the context pattern after a keyword that ends before position q
context_tail(t, q) ==
    LET q2 == run_end(t, q, "space")              \* "in" is expected here
        q3 == run_end(t, q2 + 2, "space")         \* article or symbol
    IN  IF q2 > q /\ literal_at(t, q2, <<"i","n">>) /\ q3 > q2 + 2
           /\ symbol_start(t, q3) # 0
        THEN LET b == symbol_start(t, q3)
                 g == symbol_end(t, b)
             IN  [found |-> TRUE, group1 |-> SubSeq(t, b, g - 1),
                  start1 |-> b - 1, end1 |-> g - 1, stop |-> g]
        ELSE NoMatch

\* the context pattern tried at position i: the alternatives in their order
context_at(t, i) ==
    LET ok == {k \in 1..Len(ContextKeywords) :
                 /\ literal_at(t, i, ContextKeywords[k])
                 /\ context_tail(t, i + Len(ContextKeywords[k])).found}
    IN  IF ok = {} THEN NoMatch
        ELSE context_tail(t, i + Len(ContextKeywords[CHOOSE k \in ok : \A h \in ok : k <= h]))

\* pattern.finditer(text): the matches from left to right, none overlapping
RECURSIVE explicit_matches(_, _)
explicit_matches(t, i) ==
    IF i > Len(t) THEN <<>>
    ELSE LET m == explicit_at(t, i)
         IN  IF m.found THEN <<m>> \o explicit_matches(t, m.stop)
             ELSE explicit_matches(t, i + 1)

RECURSIVE context_matches(_, _)
context_matches(t, i) ==
    IF i > Len(t) THEN <<>>
    ELSE LET m == context_at(t, i)
         IN  IF m.found THEN <<m>> \o context_matches(t, m.stop)
             ELSE context_matches(t, i + 1)

\* (mutant) the context pass keeps the symbol as it is written
context_symbol_as_written(m) == m.group1

\* symbol = match.group(1).upper()
explicit_symbol(m) == upper(m.group1)
context_symbol(m)  == upper(m.group1)

\* lines 24-31 and 33-39: the two loops filling the dict
RECURSIVE explicit_pass(_, _, _)
explicit_pass(gs, ms, k) ==
    IF k > Len(ms) THEN gs
    ELSE explicit_pass(add_mention(gs, explicit_symbol(ms[k]), to_int(ms[k].group2),
                                   <<ms[k].start1, ms[k].end1>>), ms, k + 1)

RECURSIVE context_pass(_, _, _)
context_pass(gs, ms, k) ==
    IF k > Len(ms) THEN gs
    ELSE context_pass(add_mention(gs, context_symbol(ms[k]), NoHgncId,
                                  <<ms[k].start1, ms[k].end1>>), ms, k + 1)

\* the list returned keeps the dict's insertion order (lines 41-49)
extract_genes(t) ==
    context_pass(explicit_pass(<<>>, explicit_matches(t, 1), 1), context_matches(t, 1), 1)

(***************************************************************************)
(* The texts handed to extract_genes: up to MaxSegments segments.          *)
(***************************************************************************)
MaxSegments == 4

W_TP53 == <<"T","P","5","3">>
Segments ==
    { <<"m","u","t","a","t","i","o","n"," ","i","n"," ">>,
      <<"V","a","r","i","a","n","t","s"," ","i","n"," ","t","h","e"," ">>,
      W_TP53,
      lower(W_TP53),
      <<"B","-","2">>,
      <<" ","(","H","G","N","C",":","7",")"," ">>,
      <<"(","s","e","e"," ","H","G","N","C",":","1","2",")",","," ">> }

RECURSIVE TextsOf(_)
TextsOf(n) ==
    IF n <= 1 THEN Segments
    ELSE LET shorter == TextsOf(n - 1)
         IN  shorter \cup {x \o sg : x \in shorter, sg \in Segments}

InitExtract ==
    /\ text \in TextsOf(MaxSegments)
    /\ gene_list = <<>>
    /\ term = <<>> /\ generic = <<>>
    /\ genes = <<>> /\ ent = NoEnt /\ n_ents = 0 /\ genes0 = <<>>
    /\ doc_sents = <<>>
    /\ MainIdle
    /\ loader = NoLoader

\* one call of extract_genes(text)
CallExtractGenes ==
    /\ gene_list = <<>>
    /\ gene_list' = <<extract_genes(text)>>
    /\ UNCHANGED <<text, genericVars, linkVars, mainVars>>
    /\ UNCHANGED loader

NextExtract == CallExtractGenes

SpecExtract == InitExtract /\ [][NextExtract]_vars


(***************************************************************************)
(* get_article_text.  A call either returns a value or raises.             *)
(***************************************************************************)
Raised(exc, reqs)   == [raised |-> TRUE, exc |-> exc, requests |-> reqs]
Returned(v, reqs)   == [raised |-> FALSE, value |-> v, requests |-> reqs]

W_PMC  == <<"P","M","C">>
W_PMID == <<"P","M","I","D">>

\* lines 23-33: what the identifier is read as, or the ValueError
accession(idt) ==
    LET ident == strip(idt, Whitespace)
    IN  IF startswith(upper(ident), W_PMC) THEN [kind |-> "pmcid", value |-> ident]
        ELSE IF startswith(upper(ident), W_PMID)
        THEN [kind |-> "pmid", value |-> SubSeq(ident, 5, Len(ident))]
        ELSE IF isdigit(ident) THEN [kind |-> "pmid", value |-> ident]
        ELSE [kind |-> "ValueError"]

\* What Europe PMC answers to the search: no answer in time, an HTTP error status, a
\* body that is no JSON, no result, a result without pmcid, a result with one.
SearchAnswers == {"timeout", "http_error", "bad_json", "no_result", "no_pmcid", "pmcid"}

\* (mutant) whatever the search answers is taken for a PMCID
search_never_fails(answer) == ""

\* lines 36-48: the exception the search ends in, "" if it yields a PMCID
search_failure(answer) ==
    CASE answer = "timeout"    -> "Timeout"
      [] answer = "http_error" -> "HTTPError"
      [] answer = "bad_json"   -> "JSONDecodeError"
      [] answer = "no_result"  -> "RuntimeError"
      [] answer = "no_pmcid"   -> "RuntimeError"
      [] OTHER                 -> ""

\* lines 51-72: the download, the parse and the body text; xml.text stands for the
\* tag-stripped raw text of a malformed answer and for the normalised body text
download(xml, reqs) ==
    CASE xml.kind = "timeout"    -> Raised("Timeout", reqs)
      [] xml.kind = "http_error" -> Raised("HTTPError", reqs)
      [] xml.kind = "no_body"    -> Returned(<<>>, reqs)
      [] OTHER                   -> Returned(xml.text, reqs)

get_article_text(idt, search, xml) ==
    LET acc == accession(idt)
    IN  IF acc.kind = "ValueError" THEN Raised("ValueError", <<>>)
        ELSE IF acc.kind = "pmid"
        THEN IF search_failure(search) # ""
             THEN Raised(search_failure(search), <<"search">>)
             ELSE download(xml, <<"search", "fullTextXML">>)
        ELSE download(xml, <<"fullTextXML">>)

(***************************************************************************)
(* The enrichment helpers.  A dict is a record with its key set in keys;   *)
(* answers of the services: "error" is an exception of the request or of   *)
(* the JSON parse, "http_error" an answer with an error status.            *)
(***************************************************************************)
Value(v)    == [raised |-> FALSE, value |-> v]
Raises(exc) == [raised |-> TRUE, exc |-> exc]

EmptyDict == [keys |-> {}]
\* dict.get(k, default)
Get(d, k, default) == IF k \in d.keys THEN d[k] ELSE default

W_P53  == <<"P","5","3">>
W_LFS1 == <<"L","F","S","1">>

\* the HGNC docs for a symbol: a full record, or one without Entrez and Ensembl ids
HgncDoc(kind, sym) ==
    IF kind = "full"
    THEN [keys |-> {"hgnc_id", "symbol", "name", "alias_symbol", "entrez_id",
                    "ensembl_gene_id"},
          hgnc_id |-> "HGNC:11998", symbol |-> sym, name |-> "tumor protein p53",
          alias_symbol |-> <<W_P53, lower(sym)>>, entrez_id |-> "7157",
          ensembl_gene_id |-> "ENSG00000141510"]
    ELSE [keys |-> {"hgnc_id", "symbol", "name"},
          hgnc_id |-> "HGNC:11998", symbol |-> sym, name |-> "tumor protein p53"]

\* _hgnc_api: raise_for_status and json() raise on a failure
_hgnc_api(answer, sym) ==
    IF answer = "error" THEN Raises("RequestException")
    ELSE IF answer = "none" THEN Value([response |-> [docs |-> <<>>]])
    ELSE Value([response |-> [docs |-> <<HgncDoc(answer, sym)>>]])

\* (mutant) the try/except around _hgnc_api is missing
fetch_hgnc_by_symbol_unguarded(sym, answer) ==
    LET r == _hgnc_api(answer, sym)
    IN  IF r.raised THEN r
        ELSE Value(IF r.value.response.docs # <<>> THEN r.value.response.docs[1]
                   ELSE EmptyDict)

fetch_hgnc_by_symbol(sym, answer) ==
    LET r == _hgnc_api(answer, sym)
    IN  IF r.raised THEN Value(EmptyDict)
        ELSE Value(IF r.value.response.docs # <<>> THEN r.value.response.docs[1]
                   ELSE EmptyDict)

\* hgnc_id is "" when the gene has none: no request is sent then
fetch_hgnc_by_id(hgnc_id, sym, answer) ==
    IF hgnc_id = <<>> THEN Value(EmptyDict)
    ELSE LET r == _hgnc_api(answer, sym)
         IN  IF r.raised THEN Value(EmptyDict)
             ELSE Value(IF r.value.response.docs # <<>> THEN r.value.response.docs[1]
                        ELSE EmptyDict)

\* aliases_str.split(",")
RECURSIVE split_comma(_, _, _)
split_comma(str, i, cur) ==
    IF i > Len(str) THEN <<cur>>
    ELSE IF str[i] = "," THEN <<cur>> \o split_comma(str, i + 1, <<>>)
    ELSE split_comma(str, i + 1, Append(cur, str[i]))

\* [alias.strip() for alias in aliases_str.split(",") if alias.strip()]
stripped_aliases(str) ==
    LET parts == split_comma(str, 1, <<>>)
    IN  {strip(parts[k], Whitespace) : k \in 1..Len(parts)} \ {<<>>}

\* "otheraliases" of the NCBI summary of the gene
OtherAliases(sym) == W_LFS1 \o <<",", " ">> \o sym \o <<",", " ">>

fetch_ncbi_aliases(sym, answer) ==
    IF answer = "error" THEN Value({})
    ELSE Value(stripped_aliases(OtherAliases(sym)))

Coordinates(assembly) ==
    IF assembly = "hg19" THEN "chr17:7565097-7590856" ELSE "chr17:7661779-7687550"

fetch_coordinates_by_ensembl(assembly, answer) ==
    IF answer = "error" THEN Value("")
    ELSE IF answer = "http_error" THEN Value("")
    ELSE Value(Coordinates(assembly))

\* the fallback: both lookups by symbol
fetch_coordinates_by_symbol(answer38, answer19) ==
    <<fetch_coordinates_by_ensembl("hg38", answer38),
      fetch_coordinates_by_ensembl("hg19", answer19)>>

\* resp: the answers to the calls fetch_gene_metadata makes, "unasked" for the others
fetch_gene_metadata(symbol, hgnc_id, resp) ==
    LET sym    == upper(symbol)
        by_sym == fetch_hgnc_by_symbol(sym, resp.hgnc_symbol)
        by_id  == fetch_hgnc_by_id(IF hgnc_id # NoHgncId /\ hgnc_id # 0
                                   THEN <<hgnc_id>> ELSE <<>>, sym, resp.hgnc_id)
    IN  IF by_sym.raised THEN by_sym
        ELSE IF by_sym.value.keys = {} /\ by_id.raised THEN by_id
        ELSE
        LET record == IF by_sym.value.keys # {} THEN by_sym.value ELSE by_id.value
        IN  IF record.keys = {} \/ "symbol" \notin record.keys THEN Value(<<>>)
            ELSE
            LET hgnc == Get(record, "alias_symbol", <<>>)
                from_hgnc == {hgnc[k] : k \in 1..Len(hgnc)}
                entrez == Get(record, "entrez_id", "")
                ncbi == IF entrez # "" THEN fetch_ncbi_aliases(sym, resp.ncbi)
                        ELSE Value({})
                ensembl == Get(record, "ensembl_gene_id", "")
                c38 == IF ensembl # "" THEN fetch_coordinates_by_ensembl("hg38", resp.ensembl38)
                       ELSE Value("")
                c19 == IF ensembl # "" THEN fetch_coordinates_by_ensembl("hg19", resp.ensembl19)
                       ELSE Value("")
                by_symbol == fetch_coordinates_by_symbol(resp.symbol38, resp.symbol19)
                f38 == by_symbol[1]
                f19 == by_symbol[2]
            IN  IF ncbi.raised THEN ncbi
                ELSE IF c38.raised THEN c38
                ELSE IF c19.raised THEN c19
                ELSE LET fallback == c38.value = "" /\ c19.value = ""
                     IN  IF fallback /\ f38.raised THEN f38
                         ELSE IF fallback /\ f19.raised THEN f19
                         ELSE Value(<<[hgnc_id |-> Get(record, "hgnc_id", ""),
                                      symbol |-> sym,
                                      name |-> Get(record, "name", ""),
                                      aliases |-> {a \in from_hgnc \cup ncbi.value :
                                                      upper(strip(a, Whitespace)) # sym},
                                      coord_hg38 |-> IF fallback THEN f38.value ELSE c38.value,
                                      coord_hg19 |-> IF fallback THEN f19.value ELSE c19.value]>>)

\* The answers a call of fetch_gene_metadata can get: a call that is not made gets none.
\* The coordinate calls: by Ensembl id when the record has one, by symbol when it has
\* none or when both of the former came back empty.
CoordAnswers(with_ensembl) ==
    IF with_ensembl
    THEN {c \in [ensembl38 : {"error", "http_error", "data"}, ensembl19 : {"error", "data"},
                 symbol38 : {"unasked"}, symbol19 : {"unasked"}] :
             c.ensembl38 = "data" \/ c.ensembl19 = "data"}
         \cup [ensembl38 : {"error", "http_error"}, ensembl19 : {"error"},
               symbol38 : {"error", "data"}, symbol19 : {"error", "data"}]
    ELSE [ensembl38 : {"unasked"}, ensembl19 : {"unasked"},
          symbol38 : {"error", "data"}, symbol19 : {"error", "data"}]

NoCoordAnswers ==
    [ensembl38 |-> "unasked", ensembl19 |-> "unasked",
     symbol38 |-> "unasked", symbol19 |-> "unasked"]

MetaAnswers(has_id) ==
    LET found == {[hgnc_symbol |-> "full", hgnc_id |-> "unasked", ncbi |-> n] @@ c :
                     n \in {"error", "data"}, c \in CoordAnswers(TRUE)}
                 \cup {[hgnc_symbol |-> "bare", hgnc_id |-> "unasked", ncbi |-> "unasked"] @@ c :
                          c \in CoordAnswers(FALSE)}
        missed == {"error", "none"}
    IN  IF has_id
        THEN found
             \cup {[hgnc_symbol |-> h, hgnc_id |-> "bare", ncbi |-> "unasked"] @@ c :
                      h \in missed, c \in CoordAnswers(FALSE)}
             \cup {[hgnc_symbol |-> h, hgnc_id |-> "error", ncbi |-> "unasked"] @@ NoCoordAnswers :
                      h \in missed}
        ELSE found
             \cup {[hgnc_symbol |-> h, hgnc_id |-> "unasked", ncbi |-> "unasked"] @@ NoCoordAnswers :
                      h \in missed}
MetaAnswersWithId    == MetaAnswers(TRUE)
MetaAnswersWithoutId == MetaAnswers(FALSE)

(***************************************************************************)
(* main(): the run on one identifier.                                      *)
(***************************************************************************)
Identifiers ==
    { <<"1">>,
      <<" ","p","m","c","1"," ">>,
      <<"P","M","C","x">>,
      <<"P","M","I","D","x">>,
      <<"a","b","c">>,
      <<"1","a">>,
      <<>> }

T_gout == W_gout
T_one  == <<"g","o","u","t"," ","m","u","t","a","t","i","o","n"," ","i","n"," ","T","P","5","3">>
T_two  == 
    <<"B","-","2"," ","(","H","G","N","C",":","7",")"," ","g","o","u","t","."," ","A","L","S"," ","m","u","t","a","t","i","o","n"," ","i","n"," ","t","p","5","3">>
ArticleTexts == {T_gout, T_one, T_two}

\* what Europe PMC answers to the download
XmlAnswers ==
    {[kind |-> k] : k \in {"timeout", "http_error", "no_body"}}
    \cup {[kind |-> "body", text |-> t] : t \in ArticleTexts}
    \cup {[kind |-> "malformed", text |-> T_one]}

\* the requests sent, each with the answer it got
Asked(reqs, search, xml) ==
    [k \in 1..Len(reqs) |->
        [endpoint |-> reqs[k],
         answer |-> IF reqs[k] = "search" THEN search ELSE xml.kind]]

\* nlp_disease(text): the pipeline finds some of the disease words of the text, and
\* ends a sentence after some of its full stops.
DiseaseWords == {W_gout, W_ALS}
Occurrences(t) ==
    {o \in [at : 0..Len(t), word : DiseaseWords] :
        /\ o.at + Len(o.word) <= Len(t)
        /\ SubSeq(t, o.at + 1, o.at + Len(o.word)) = o.word}

FullStops(t) == {p \in 1..(Len(t) - 2) : t[p] = "." /\ t[p + 1] = " "}

\* the elements of a set of naturals, ascending
RECURSIVE Ascending(_)
Ascending(S) ==
    IF S = {} THEN <<>>
    ELSE LET m == CHOOSE x \in S : \A y \in S : x <= y
         IN  <<m>> \o Ascending(S \ {m})

\* the sentences of a text broken after the full stops at the positions in stops
SentencesOf(t, stops) ==
    LET ends == Ascending(stops \cup {Len(t)})
    IN  [k \in 1..Len(ends) |->
            [start_char |-> IF k = 1 THEN 0 ELSE ends[k - 1] + 1,
             end_char |-> ends[k]]]

\* the answers of MedGen, MeSH and OLS during one run
MainLookups == [medgen : {"hit", "error"}, mesh : {"hit", "error"}, ols : {"hit", "error"}]

EntsOf(found, resp) ==
    LET at == Ascending({o.at : o \in found})
    IN  [k \in 1..Len(at) |->
            LET o == CHOOSE x \in found : x.at = at[k]
            IN  [label |-> "DISEASE", text |-> o.word, start_char |-> o.at,
                 end_char |-> o.at + Len(o.word), lookup |-> resp]]

Docs(t) ==
    {[sents |-> SentencesOf(t, stops), ents |-> EntsOf(found, resp)] :
        stops \in SUBSET FullStops(t), found \in SUBSET Occurrences(t),
        resp \in MainLookups}

\* associate_diseases(genes, doc): the loop over doc.ents
RECURSIVE associate_diseases(_, _, _)
associate_diseases(gs, ents, k) ==
    IF k > Len(ents) THEN gs
    ELSE associate_diseases(associate_ent(gs, ents[k]), ents, k + 1)

\* GeneInfo(...) of lines 41-49
GeneInfo(gene_data, disease_set) ==
    [hgnc_id |-> gene_data.hgnc_id, gene_symbol |-> gene_data.symbol,
     gene_name |-> gene_data.name, gene_aliases |-> gene_data.aliases,
     coord_hg38 |-> gene_data.coord_hg38, coord_hg19 |-> gene_data.coord_hg19,
     disease |-> disease_set]

InitMain ==
    /\ identifier \in Identifiers
    /\ pc = "fetch"
    /\ text = <<>> /\ requests = <<>> /\ error = ""
    /\ genes = <<>> /\ genes0 = <<>> /\ doc_sents = <<>> /\ doc_ents = <<>>
    /\ gi = 0 /\ results = <<>> /\ csv = <<>> /\ meta = <<>>
    /\ term = <<>> /\ generic = <<>> /\ gene_list = <<>> /\ ent = NoEnt /\ n_ents = 0
    /\ loader = NoLoader

\* text = get_article_text(args.input); an exception ends the run
GetArticleText ==
    /\ pc = "fetch"
    /\ \E search \in SearchAnswers, xml \in XmlAnswers :
          LET r == get_article_text(identifier, search, xml)
          IN  /\ requests' = Asked(r.requests, search, xml)
              /\ IF r.raised
                 THEN pc' = "failed" /\ error' = r.exc /\ text' = text
                 ELSE pc' = "extract" /\ error' = error /\ text' = r.value
    /\ UNCHANGED <<genericVars, linkVars, gene_list, doc_ents, identifier, gi, results,
                   csv, meta>>
    /\ UNCHANGED loader

\* genes = extract_genes(text); if not genes: return
ExtractGenes ==
    /\ pc = "extract"
    /\ genes' = extract_genes(text)
    /\ pc' = IF genes' = <<>> THEN "done" ELSE "ner"
    /\ UNCHANGED <<genericVars, extractVars, ent, n_ents, genes0, doc_sents, doc_ents,
                   identifier, requests, error, gi, results, csv, meta>>
    /\ UNCHANGED loader

\* doc = nlp_disease(text)
RunNER ==
    /\ pc = "ner"
    /\ \E doc \in Docs(text) :
          /\ doc_sents' = doc.sents
          /\ doc_ents' = doc.ents
    /\ pc' = "link"
    /\ UNCHANGED <<genericVars, extractVars, genes, ent, n_ents, genes0, identifier,
                   requests, error, gi, results, csv, meta>>
    /\ UNCHANGED loader

\* associate_diseases(genes, doc); results = []
LinkDiseases ==
    /\ pc = "link"
    /\ genes' = associate_diseases(genes, doc_ents, 1)
    /\ genes0' = genes
    /\ gi' = 1
    /\ pc' = "enrich"
    /\ UNCHANGED <<genericVars, extractVars, ent, n_ents, doc_sents, doc_ents, identifier,
                   requests, error, results, csv, meta>>
    /\ UNCHANGED loader

\* one iteration of the loop over genes (lines 32-51)
EnrichGene ==
    /\ pc = "enrich"
    /\ gi <= Len(genes)
    /\ IF genes[gi].diseases = {}
       THEN /\ gi' = gi + 1
            /\ UNCHANGED <<pc, error, results, meta>>
       ELSE \E resp \in IF genes[gi].hgnc_id # NoHgncId /\ genes[gi].hgnc_id # 0
                        THEN MetaAnswersWithId ELSE MetaAnswersWithoutId :
               LET r == fetch_gene_metadata(genes[gi].symbol, genes[gi].hgnc_id, resp)
               IN  /\ meta' = <<[gene |-> gi, answers |-> resp, result |-> r]>>
                   /\ IF r.raised
                      THEN pc' = "failed" /\ error' = r.exc /\ UNCHANGED <<gi, results>>
                      ELSE /\ gi' = gi + 1
                           /\ UNCHANGED <<pc, error>>
                           /\ results' = IF r.value = <<>> THEN results
                                         ELSE Append(results,
                                                     GeneInfo(r.value[1], genes[gi].diseases))
    /\ UNCHANGED <<genericVars, extractVars, linkVars, doc_ents, identifier, requests, csv>>
    /\ UNCHANGED loader

\* (mutant) the test of lines 53-55 is missing: the CSV is written whatever was found
WriteCsv_unconditional ==
    /\ pc = "enrich"
    /\ gi > Len(genes)
    /\ csv' = <<results>>
    /\ pc' = "done"
    /\ UNCHANGED <<genericVars, extractVars, linkVars, doc_ents, identifier, requests,
                   error, gi, results, meta>>
    /\ UNCHANGED loader

\* if not results: return; write_csv(results, args.output)
WriteCsv ==
    /\ pc = "enrich"
    /\ gi > Len(genes)
    /\ csv' = IF results = <<>> THEN csv ELSE <<results>>
    /\ pc' = "done"
    /\ UNCHANGED <<genericVars, extractVars, linkVars, doc_ents, identifier, requests,
                   error, gi, results, meta>>
    /\ UNCHANGED loader

NextMain == GetArticleText \/ ExtractGenes \/ RunNER \/ LinkDiseases \/ EnrichGene \/ WriteCsv

SpecMain == InitMain /\ [][NextMain]_vars

(***************************************************************************)
(* csv_to_db.py: process_gene_data(csv_path, db_path).  A cell of the data *)
(* frame is a string, NaN (an empty field) or a number; the database is    *)
(* three tables: Gene, a set of rows keyed by hgnc_id, and Alias and       *)
(* Disease, lists of rows in the order of insertion.                       *)
(* loader.db holds what is committed, loader.tx the open transaction's     *)
(* view (<<>> when none is open), loader.db0 the tables before the run.    *)
(***************************************************************************)
MaxRows == 2

Str(chars) == [kind |-> "str", s |-> chars]
NaN        == [kind |-> "nan"]
Num        == [kind |-> "num"]

\* str.replace(old, ""): every occurrence of old removed, left to right
RECURSIVE str_remove(_, _)
str_remove(str, old) ==
    IF str = <<>> THEN <<>>
    ELSE IF startswith(str, old) THEN str_remove(SubSeq(str, Len(old) + 1, Len(str)), old)
    ELSE <<str[1]>> \o str_remove(SubSeq(str, 2, Len(str)), old)

\* int(hgnc_id.replace('HGNC:', '')); a cell that is no string has no replace
extract_hgnc_number(cell) ==
    IF cell.kind # "str" THEN Raises("AttributeError")
    ELSE LET digits == strip(str_remove(cell.s, W_HGNC), Whitespace)
         IN  IF isdigit(digits) THEN Value(to_int(digits)) ELSE Raises("ValueError")

\* text.split(sep)
RECURSIVE split_on(_, _, _, _)
split_on(str, sep, i, cur) ==
    IF i > Len(str) THEN <<cur>>
    ELSE IF str[i] = sep THEN <<cur>> \o split_on(str, sep, i + 1, <<>>)
    ELSE split_on(str, sep, i + 1, Append(cur, str[i]))

\* [] for NaN, else [x.strip() for x in text.split(';')]
split_values(cell) ==
    IF cell.kind = "nan" THEN Value(<<>>)
    ELSE IF cell.kind # "str" THEN Raises("AttributeError")
    ELSE LET parts == split_on(cell.s, ";", 1, <<>>)
         IN  Value([k \in 1..Len(parts) |-> strip(parts[k], Whitespace)])

\* the rows of a table that are not of gene id
RECURSIVE rows_without(_, _)
rows_without(rows, id) ==
    IF rows = <<>> THEN <<>>
    ELSE IF rows[1].hgnc_id = id THEN rows_without(Tail(rows), id)
    ELSE <<rows[1]>> \o rows_without(Tail(rows), id)

\* INSERT OR REPLACE INTO Gene
insert_gene(t, id, row) ==
    [t EXCEPT !.Gene = {g \in @ : g.hgnc_id # id} \cup
                       {[hgnc_id |-> id, symbol |-> row.symbol, name |-> row.name,
                         coord_hg38 |-> row.coord_hg38, coord_hg19 |-> row.coord_hg19]}]

\* DELETE FROM Alias WHERE hgnc_id = ?; DELETE FROM Disease WHERE hgnc_id = ?
delete_children(t, id) ==
    [t EXCEPT !.Alias = rows_without(@, id), !.Disease = rows_without(@, id)]

\* the loops of INSERT INTO Alias / INSERT INTO Disease
insert_values(t, table, id, values) ==
    [t EXCEPT ![table] = @ \o [k \in 1..Len(values) |-> [hgnc_id |-> id, value |-> values[k]]]]

\* the statements of one row at which sqlite3 can raise, "none" if none does
Faults == {"none", "gene", "delete", "alias", "disease"}

\* lines 46-78: one iteration of the loop over the rows, on the tables t of the open
\* transaction; what is written before an exception stays written in the transaction
process_row(t, row, fault) ==
    LET id       == extract_hgnc_number(row.hgnc_id)
        aliases  == split_values(row.aliases)
        diseases == split_values(row.disease)
        t1 == insert_gene(t, id.value, row)
        t2 == delete_children(t1, id.value)
        t3 == insert_values(t2, "Alias", id.value, aliases.value)
        t4 == insert_values(t3, "Disease", id.value, diseases.value)
    IN  IF id.raised THEN [raised |-> TRUE, tables |-> t]
        ELSE IF fault = "gene" THEN [raised |-> TRUE, tables |-> t]
        ELSE IF fault = "delete" THEN [raised |-> TRUE, tables |-> t1]
        ELSE IF aliases.raised \/ fault = "alias" THEN [raised |-> TRUE, tables |-> t2]
        ELSE IF diseases.raised \/ fault = "disease" THEN [raised |-> TRUE, tables |-> t3]
        ELSE [raised |-> FALSE, tables |-> t4]

\* lines 84-89: print, conn.rollback(), sys.exit(1), and conn.close() on the way out
rollback_and_exit(l, where) ==
    [l EXCEPT !.out = Append(@, "Error processing data"), !.tx = <<>>,
              !.rollbacks = @ + 1, !.conn = "closed", !.status = "1",
              !.failed = where, !.pc = "exited"]

\* the rows of the CSV files
Row(id, symbol, aliases, disease) ==
    [hgnc_id |-> id, symbol |-> symbol, name |-> "name of " \o symbol,
     coord_hg38 |-> "chr1:1-2", coord_hg19 |-> "chr1:3-4",
     aliases |-> aliases, disease |-> disease]

CsvRows ==
    { Row(Str(<<"H","G","N","C",":","7">>), "B-2", Str(<<"A",";"," ","B","2",";">>), Str(W_gout)),
      Row(Str(<<"H","G","N","C",":","7">>), "B2", NaN, Str(<<"A","L","S",";"," ","g","o","u","t">>)),
      Row(Str(<<"H","G","N","C",":","1","2">>), "TP53", Str(W_P53), Str(W_ALS)),
      Row(NaN, "TP53", Str(W_P53), Str(W_ALS)),
      Row(Str(<<"H","G","N","C",":","x">>), "TP53", Str(W_P53), Str(W_ALS)),
      Row(Str(<<"H","G","N","C",":","1","2">>), "TP53", Str(W_P53), Num) }

RECURSIVE RowListsOf(_)
RowListsOf(n) ==
    IF n = 0 THEN {<<>>}
    ELSE LET shorter == RowListsOf(n - 1)
         IN  shorter \cup {Append(rs, r) : rs \in shorter, r \in CsvRows}

\* the input file: absent, not readable as CSV, or a frame of rows
CsvFiles ==
    {[exists |-> FALSE], [exists |-> TRUE, readable |-> FALSE]}
    \cup {[exists |-> TRUE, readable |-> TRUE, rows |-> rs] : rs \in RowListsOf(MaxRows)}

\* the database before the run: empty, or holding gene 7 from an earlier run
EmptyTables == [Gene |-> {}, Alias |-> <<>>, Disease |-> <<>>]
EarlierTables ==
    [Gene |-> {[hgnc_id |-> 7, symbol |-> "B-2", name |-> "old name",
                coord_hg38 |-> "", coord_hg19 |-> ""]},
     Alias |-> <<[hgnc_id |-> 7, value |-> W_LFS1]>>,
     Disease |-> <<[hgnc_id |-> 7, value |-> W_gout]>>]

InitLoader ==
    /\ \E file \in CsvFiles, tables \in {EmptyTables, EarlierTables} :
          loader = [pc |-> "read", csv |-> file, k |-> 1, conn |-> "none",
                    db |-> tables, tx |-> <<>>, db0 |-> tables, status |-> "running",
                    out |-> <<>>, commits |-> 0, rollbacks |-> 0, failed |-> ""]
    /\ term = <<>> /\ generic = <<>> /\ text = <<>> /\ gene_list = <<>>
    /\ genes = <<>> /\ ent = NoEnt /\ n_ents = 0 /\ genes0 = <<>> /\ doc_sents = <<>>
    /\ MainIdle

OtherVars == <<genericVars, extractVars, linkVars, mainVars>>

\* lines 25-34: the file is looked for and read; sys.exit(1) if either fails
ReadCsv ==
    /\ loader.pc = "read"
    /\ loader' =
          IF ~loader.csv.exists
          THEN [loader EXCEPT !.out = Append(@, "Error: Input file not found"),
                              !.status = "1", !.failed = "read", !.pc = "exited"]
          ELSE IF ~loader.csv.readable
          THEN [loader EXCEPT !.out = Append(@, "Error reading CSV file"),
                              !.status = "1", !.failed = "read", !.pc = "exited"]
          ELSE [loader EXCEPT !.pc = "connect"]
    /\ UNCHANGED OtherVars

\* line 38: sqlite3.connect; if it raises, conn is unbound in the handler and in the
\* finally clause, and the process ends with that error after the message
Connect ==
    /\ loader.pc = "connect"
    /\ \E ok \in BOOLEAN :
          loader' =
             IF ok THEN [loader EXCEPT !.conn = "open", !.pc = "ddl"]
             ELSE [loader EXCEPT !.out = Append(@, "Error processing data"),
                                 !.status = "1", !.failed = "connect", !.pc = "exited"]
    /\ UNCHANGED OtherVars

\* line 42: the tables are created if they do not exist
CreateTables ==
    /\ loader.pc = "ddl"
    /\ \E ok \in BOOLEAN :
          loader' = IF ok THEN [loader EXCEPT !.pc = "rows"]
                    ELSE rollback_and_exit(loader, "ddl")
    /\ UNCHANGED OtherVars

\* (mutant) the commit is inside the loop
ProcessRow_commit_each ==
    /\ loader.pc = "rows"
    /\ loader.k <= Len(loader.csv.rows)
    /\ \E fault \in Faults :
          LET before == IF loader.tx = <<>> THEN loader.db ELSE loader.tx[1]
              r      == process_row(before, loader.csv.rows[loader.k], fault)
          IN  loader' =
                 IF r.raised
                 THEN rollback_and_exit([loader EXCEPT !.tx = <<r.tables>>], "row")
                 ELSE [loader EXCEPT !.db = r.tables, !.tx = <<>>, !.k = @ + 1]
    /\ UNCHANGED OtherVars

\* lines 45-78: one row; the first statement opens the transaction
ProcessRow ==
    /\ loader.pc = "rows"
    /\ loader.k <= Len(loader.csv.rows)
    /\ \E fault \in Faults :
          LET before == IF loader.tx = <<>> THEN loader.db ELSE loader.tx[1]
              r      == process_row(before, loader.csv.rows[loader.k], fault)
          IN  loader' =
                 IF r.raised
                 THEN rollback_and_exit([loader EXCEPT !.tx = <<r.tables>>], "row")
                 ELSE [loader EXCEPT !.tx = <<r.tables>>, !.k = @ + 1]
    /\ UNCHANGED OtherVars

\* lines 80-82 and 88-89: conn.commit() after the last row, the message, conn.close()
Commit ==
    /\ loader.pc = "rows"
    /\ loader.k > Len(loader.csv.rows)
    /\ \E ok \in BOOLEAN :
          loader' =
             IF ok
             THEN [loader EXCEPT !.db = IF loader.tx = <<>> THEN @ ELSE loader.tx[1],
                                 !.tx = <<>>, !.commits = @ + 1,
                                 !.out = Append(@, "Successfully processed data"),
                                 !.conn = "closed", !.status = "0", !.pc = "exited"]
             ELSE rollback_and_exit(loader, "commit")
    /\ UNCHANGED OtherVars

NextLoader == ReadCsv \/ Connect \/ CreateTables \/ ProcessRow \/ Commit

SpecLoader == InitLoader /\ [][NextLoader]_vars

(***************************************************************************)
(* What the claims speak of, stated on a gene list gs and a span e apart   *)
(* from the linker's own loops.                                            *)
(***************************************************************************)
\* the number of the sentence the span lies in
SentenceOf(e) == CHOOSE k \in 1..NumSents :
                    sentences[k].start_char <= e.start_char
                    /\ e.start_char < sentences[k].end_char

\* the positions, in gene g's mention list, of the mentions entirely inside sentence k
MentionsInside(g, k) ==
    {n \in 1..Len(g.mentions) :
        /\ sentences[k].start_char <= g.mentions[n][1]
        /\ g.mentions[n][2] <= sentences[k].end_char}

\* the candidate genes of sentence k, and the distinct symbols mentioned in it
Candidates(gs, k) == {i \in 1..Len(gs) : MentionsInside(gs[i], k) # {}}
SymbolsInside(gs, k) ==
    IF k \in 1..NumSents THEN {gs[i].symbol : i \in Candidates(gs, k)} ELSE {}

SetMin(S) == CHOOSE x \in S : \A y \in S : x <= y

\* twice the distance between the midpoints of mention n of g and of the span
MidDist2(g, n, e) ==
    Abs((g.mentions[n][1] + g.mentions[n][2]) - (e.start_char + e.end_char))
\* by the gene's nearest mention inside the sentence
NearestDist2(g, k, e) == SetMin({MidDist2(g, n, e) : n \in MentionsInside(g, k)})
\* by the gene's first mention, in list order, inside the sentence
FirstDist2(g, k, e) == MidDist2(g, SetMin(MentionsInside(g, k)), e)

\* the last iteration recorded the span's name on gene i and changed nothing else
RecordedOn(i) ==
    genes = [genes0 EXCEPT ![i].diseases = @ \cup {disease_name(ent)}]

\* the gene list position of the only symbol of sentence k
OnlyGeneOf(gs, k) ==
    SetMin({i \in 1..Len(gs) : gs[i].symbol \in SymbolsInside(gs, k)})

\* C1 as stated: the association goes to a gene whose NEAREST mention inside the
\* sentence is at minimum distance from the disease span's midpoint.
C1_NearestMentionWins ==
    LET k == SentenceOf(ent)
    IN  (accepted(ent) /\ Candidates(genes0, k) # {}) =>
               \E i \in Candidates(genes0, k) :
                  /\ \A j \in Candidates(genes0, k) :
                        NearestDist2(genes0[i], k, ent) <= NearestDist2(genes0[j], k, ent)
                  /\ RecordedOn(i)

\* C1 amended: for every accepted disease span whose sentence contains a gene mention,
\* the association is recorded on a gene at minimum distance among the candidates,
\* the distance of a gene being taken from the FIRST of its mentions, in mention-list
\* order, that lies entirely inside the sentence.
C1_FirstMentionWins ==
    LET k == SentenceOf(ent)
    IN  (accepted(ent) /\ Candidates(genes0, k) # {}) =>
               \E i \in Candidates(genes0, k) :
                  /\ \A j \in Candidates(genes0, k) :
                        FirstDist2(genes0[i], k, ent) <= FirstDist2(genes0[j], k, ent)
                  /\ RecordedOn(i)

\* a processed span linked to gene j although gene i has a nearer mention in the
\* sentence: i's first mention is the farther one
C1_Witness ==
    /\ n_ents = 1 /\ accepted(ent)
    /\ \E i, j \in Candidates(genes, SentenceOf(ent)) :
          LET k == SentenceOf(ent)
          IN  /\ NearestDist2(genes[i], k, ent) < FirstDist2(genes[j], k, ent)
              /\ FirstDist2(genes[j], k, ent) < FirstDist2(genes[i], k, ent)
              /\ genes[j].diseases = {disease_name(ent)}
              /\ genes[i].diseases = {}

\* C2: an accepted span with no gene in its sentence and no unique gene in the
\* sentence before or after it adds its name to no gene's disease set.
C2_NoUniqueNeighbourDrops ==
    LET k == SentenceOf(ent)
    IN  ( /\ accepted(ent)
              /\ Candidates(genes0, k) = {}
              /\ Cardinality(SymbolsInside(genes0, k - 1)) # 1
              /\ Cardinality(SymbolsInside(genes0, k + 1)) # 1 )
            => \A i \in 1..Len(genes0) : genes[i].diseases = genes0[i].diseases

\* an accepted span dropped although a neighbouring sentence mentions genes: two symbols
C2_Witness ==
    /\ n_ents = 1 /\ accepted(ent)
    /\ LET k == SentenceOf(ent)
       IN  /\ Candidates(genes, k) = {}
           /\ \/ Cardinality(SymbolsInside(genes, k - 1)) >= 2
              \/ Cardinality(SymbolsInside(genes, k + 1)) >= 2
           /\ Cardinality(SymbolsInside(genes, k - 1)) # 1
           /\ Cardinality(SymbolsInside(genes, k + 1)) # 1
    /\ \A i \in 1..Len(genes) : genes[i].diseases = {}

\* C3: with no gene in the span's own sentence, a preceding sentence with exactly one
\* symbol gets the link whatever follows; otherwise the following sentence gets it iff
\* it has exactly one symbol; with a gene in the own sentence the link stays there.
C3_PrecedingThenFollowing ==
    LET k == SentenceOf(ent)
    IN  accepted(ent) =>
              IF Candidates(genes0, k) # {}
              THEN \E i \in Candidates(genes0, k) : RecordedOn(i)
              ELSE IF Cardinality(SymbolsInside(genes0, k - 1)) = 1
              THEN RecordedOn(OnlyGeneOf(genes0, k - 1))
              ELSE IF Cardinality(SymbolsInside(genes0, k + 1)) = 1
              THEN RecordedOn(OnlyGeneOf(genes0, k + 1))
              ELSE genes = genes0

\* both neighbours have their own single gene, and the preceding one's got the link
C3_Witness ==
    /\ n_ents = 1 /\ accepted(ent)
    /\ LET k == SentenceOf(ent)
       IN  /\ Candidates(genes, k) = {}
           /\ Cardinality(SymbolsInside(genes, k - 1)) = 1
           /\ Cardinality(SymbolsInside(genes, k + 1)) = 1
           /\ OnlyGeneOf(genes, k - 1) # OnlyGeneOf(genes, k + 1)
           /\ genes[OnlyGeneOf(genes, k - 1)].diseases = {disease_name(ent)}
           /\ genes[OnlyGeneOf(genes, k + 1)].diseases = {}

\* C4: when several candidate genes are at the same minimum distance (taken as the
\* linker takes it, from the first mention inside the sentence), the association goes
\* to the tied gene that is earliest in the gene list and to no other gene.
C4_FirstFoundWinsTies ==
    LET k    == SentenceOf(ent)
            tied == {i \in Candidates(genes0, k) :
                       \A j \in Candidates(genes0, k) :
                          FirstDist2(genes0[i], k, ent) <= FirstDist2(genes0[j], k, ent)}
    IN  (accepted(ent) /\ Cardinality(tied) >= 2) => RecordedOn(SetMin(tied))

\* two genes at the same distance on either side of the span, the first listed linked
C4_Witness ==
    /\ n_ents = 1 /\ accepted(ent)
    /\ \E i, j \in Candidates(genes, SentenceOf(ent)) :
          LET k == SentenceOf(ent)
          IN  /\ i < j
              /\ FirstDist2(genes[i], k, ent) = FirstDist2(genes[j], k, ent)
              /\ genes[i].mentions # genes[j].mentions
              /\ \A h \in Candidates(genes, k) :
                    FirstDist2(genes[i], k, ent) <= FirstDist2(genes[h], k, ent)
              /\ genes[i].diseases = {disease_name(ent)}
              /\ genes[j].diseases = {}

\* The generic terms as the claim lists them: a keyword alone, a keyword preceded by
\* generic qualifiers only, or one or two generic qualifiers; words are joined by a
\* blank or a hyphen.
WordJoints == {<<" ">>, <<"-">>}
RECURSIVE QualifierPhrases(_)
QualifierPhrases(n) ==
    IF n <= 1 THEN GENERIC_PARTS
    ELSE LET fewer == QualifierPhrases(n - 1)
         IN  fewer \cup {q \o j \o w : q \in fewer, j \in WordJoints, w \in GENERIC_PARTS}
KeywordSet == {W_disease, W_syndrome, W_disorder}
GenericTerms ==
    KeywordSet
    \cup {q \o j \o kw : q \in QualifierPhrases(MaxWords - 1), j \in WordJoints, kw \in KeywordSet}
    \cup QualifierPhrases(2)

SameSymbol(a, b) == lower(a) = lower(b)
MatchesOf(t) == explicit_matches(t, 1) \o context_matches(t, 1)
C7_OneRecordPerSymbol ==
    gene_list # <<>> =>
        LET gl == gene_list[1]
            ms == MatchesOf(text)
        IN  /\ \A i, j \in 1..Len(gl) :
                  SameSymbol(gl[i].symbol, gl[j].symbol) => i = j
            /\ \A k \in 1..Len(ms) :
                  \E i \in 1..Len(gl) :
                     /\ SameSymbol(gl[i].symbol, ms[k].group1)
                     /\ \E n \in 1..Len(gl[i].mentions) :
                           gl[i].mentions[n] = <<ms[k].start1, ms[k].end1>>
            /\ \A i \in 1..Len(gl) :
                  Len(gl[i].mentions) =
                     Cardinality({k \in 1..Len(ms) : SameSymbol(gl[i].symbol, ms[k].group1)})

\* one record holds an explicit-HGNC mention and a context mention written in another
\* letter case
C7_Witness ==
    /\ gene_list # <<>>
    /\ \E i \in 1..Len(gene_list[1]) :
          LET g == gene_list[1][i]
          IN  /\ g.hgnc_id # NoHgncId
              /\ \E a, b \in 1..Len(g.mentions) :
                    /\ SubSeq(text, g.mentions[a][1] + 1, g.mentions[a][2]) = g.symbol
                    /\ SubSeq(text, g.mentions[b][1] + 1, g.mentions[b][2]) = lower(g.symbol)
                    /\ lower(g.symbol) # g.symbol

(***************************************************************************)
(* Claims about the fetch: the run of main() on one identifier.            *)
(***************************************************************************)
\* the failures of a Europe PMC request the text names, and all of them
NamedFailures == {"timeout", "http_error", "no_result", "no_pmcid"}
FetchFailures == NamedFailures \cup {"bad_json"}
request_got(answers) == \E k \in 1..Len(requests) : requests[k].answer \in answers

NothingDone == genes = <<>> /\ doc_ents = <<>> /\ results = <<>> /\ csv = <<>>

WellFormed(idt) ==
    LET ident == strip(idt, Whitespace)
    IN  \/ isdigit(ident)
        \/ startswith(upper(ident), W_PMID) /\ isdigit(SubSeq(ident, 5, Len(ident)))
        \/ startswith(upper(ident), W_PMC) /\ isdigit(SubSeq(ident, 4, Len(ident)))

\* C10: an identifier that is no well-formed PMID or PMCID ends the run with an error
\* before any request is sent, and nothing is extracted, linked or written.
C10_BadIdentifierFatal ==
    (pc # "fetch" /\ ~WellFormed(identifier)) =>
        /\ pc = "failed"
        /\ error = "ValueError"
        /\ requests = <<>>
        /\ NothingDone

(***************************************************************************)
(* Claims about the enrichment.                                            *)
(***************************************************************************)
AllLookupsFail(e) == e.lookup = [medgen |-> "error", mesh |-> "error", ols |-> "error"]
Failed(answer)    == answer \in {"error", "http_error"}

\* every helper whose call failed during the last fetch_gene_metadata returns its
\* "no data" value, and so does is_valid_disease_name when its three lookups fail
HelpersReturnNoData ==
    /\ meta # <<>> =>
          LET a    == meta[1].answers
              gene == genes[meta[1].gene]
              sym  == upper(gene.symbol)
          IN  /\ Failed(a.hgnc_symbol) => fetch_hgnc_by_symbol(sym, a.hgnc_symbol) = Value(EmptyDict)
              /\ Failed(a.hgnc_id) =>
                    fetch_hgnc_by_id(<<gene.hgnc_id>>, sym, a.hgnc_id) = Value(EmptyDict)
              /\ Failed(a.ncbi) => fetch_ncbi_aliases(sym, a.ncbi) = Value({})
              /\ \A c \in {"ensembl38", "symbol38"} :
                    Failed(a[c]) => fetch_coordinates_by_ensembl("hg38", a[c]) = Value("")
              /\ \A c \in {"ensembl19", "symbol19"} :
                    Failed(a[c]) => fetch_coordinates_by_ensembl("hg19", a[c]) = Value("")
    /\ \A k \in 1..Len(doc_ents) :
          AllLookupsFail(doc_ents[k]) =>
              ~is_valid_disease_name(disease_name(doc_ents[k]), doc_ents[k].lookup)

\* neither fetch_gene_metadata nor the run ends in an error once the text is fetched
EnrichmentNeverFails ==
    /\ meta # <<>> => ~meta[1].result.raised
    /\ pc = "failed" => (meta = <<>> /\ NothingDone)

\* C9 as stated: failures of the enrichment calls are never surfaced, the helpers
\* return their "no data" value, fetch_gene_metadata and the run complete without an
\* error, and the field the failing call feeds is empty in the result.
C9_AffectedFieldEmpty ==
    /\ HelpersReturnNoData
    /\ EnrichmentNeverFails
    /\ (meta # <<>> /\ meta[1].result.value # <<>>) =>
          LET a   == meta[1].answers
              rec == meta[1].result.value[1]
          IN  /\ Failed(a.ncbi) => rec.aliases = {}
              /\ (Failed(a.ensembl38) /\ Failed(a.ensembl19)
                  /\ Failed(a.symbol38) /\ Failed(a.symbol19)) =>
                    (rec.coord_hg38 = "" /\ rec.coord_hg19 = "")

\* C9, amended: failures of the enrichment calls are never surfaced, the helpers return
\* their "no data" value, and fetch_gene_metadata and the run complete without an
\* error.  When no HGNC lookup yields a record the gene is left out of the results;
\* when the NCBI call fails the aliases are those of the HGNC record alone; a coordinate
\* is empty when every Ensembl call made for its assembly failed; a disease whose
\* lookups all fail is linked to no gene.
C9_FailuresNeverSurface ==
    /\ HelpersReturnNoData
    /\ EnrichmentNeverFails
    /\ meta # <<>> =>
          LET a     == meta[1].answers
              sym   == upper(genes[meta[1].gene].symbol)
              value == meta[1].result.value
              hgnc  == HgncDoc("full", sym).alias_symbol
          IN  /\ (a.hgnc_symbol = "error" /\ a.hgnc_id \in {"error", "unasked"}) =>
                    /\ value = <<>>
                    /\ \A k \in 1..Len(results) : results[k].gene_symbol # sym
              /\ value # <<>> =>
                    /\ Failed(a.ncbi) =>
                          value[1].aliases \subseteq {hgnc[k] : k \in 1..Len(hgnc)}
                    /\ (Failed(a.ensembl38) /\ a.symbol38 \in {"error", "unasked"}) =>
                          value[1].coord_hg38 = ""
                    /\ (Failed(a.ensembl19) /\ a.symbol19 \in {"error", "unasked"}) =>
                          value[1].coord_hg19 = ""
    /\ (gi > 0 /\ \A k \in 1..Len(doc_ents) : AllLookupsFail(doc_ents[k])) =>
          \A g \in 1..Len(genes) : genes[g].diseases = {}

\* a run that wrote its CSV although the NCBI call and every Ensembl call of the last
\* gene failed, and a lookup of the disease names too
C9_Witness ==
    /\ pc = "done"
    /\ csv # <<>>
    /\ meta # <<>>
    /\ meta[1].answers.ncbi = "error"
    /\ meta[1].answers.ensembl38 = "http_error"
    /\ meta[1].answers.ensembl19 = "error"
    /\ meta[1].answers.symbol38 = "error"
    /\ meta[1].answers.symbol19 = "error"
    /\ meta[1].result.value # <<>>
    /\ \E k \in 1..Len(doc_ents) : doc_ents[k].lookup.medgen = "error"

(***************************************************************************)
(* Claims about the control flow of main().                                *)
(***************************************************************************)
\* the stages in the order of main(), the two ends of a run last
StageRank(stage) ==
    CASE stage = "fetch"   -> 1
      [] stage = "extract" -> 2
      [] stage = "ner"     -> 3
      [] stage = "link"    -> 4
      [] stage = "enrich"  -> 5
      [] OTHER             -> 6

\* what a stage that has not started has left untouched
NotFetched   == text = <<>> /\ requests = <<>>
NotExtracted == genes = <<>>
NotParsed    == doc_sents = <<>> /\ doc_ents = <<>>
NotLinked    == gi = 0 /\ \A g \in 1..Len(genes) : genes[g].diseases = {}
NotEnriched  == meta = <<>> /\ results = <<>>
NotWritten   == csv = <<>>

\* every stage before the one the run is at has finished, none after it has started
StagesInOrder ==
    /\ pc = "fetch"   => NotFetched /\ NotExtracted /\ NotParsed /\ NotLinked /\ NotEnriched /\ NotWritten
    /\ pc = "extract" => NotExtracted /\ NotParsed /\ NotLinked /\ NotEnriched /\ NotWritten
    /\ pc = "ner"     => genes # <<>> /\ NotParsed /\ NotLinked /\ NotEnriched /\ NotWritten
    /\ pc = "link"    => genes # <<>> /\ NotLinked /\ NotEnriched /\ NotWritten
    /\ pc = "enrich"  => genes # <<>> /\ gi >= 1 /\ NotWritten

\* a run that ends early has done no later stage and written nothing
EarlyEndDoesNoMore ==
    /\ (pc = "done" /\ genes = <<>>) => NotParsed /\ NotLinked /\ NotEnriched /\ NotWritten
    /\ (pc = "done" /\ results = <<>>) => NotWritten
    /\ pc = "failed" => NotWritten

\* one step of the run: the stage moves on by one or the run ends, and the CSV is
\* written once, after the loop over the genes has finished
StepInOrder ==
    /\ pc' # pc =>
          \/ StageRank(pc') = StageRank(pc) + 1
          \/ pc' \in {"done", "failed"}
    /\ StageRank(pc') >= StageRank(pc)
    /\ pc \in {"done", "failed"} => UNCHANGED vars
    /\ csv' # csv =>
          /\ csv = <<>>
          /\ pc = "enrich" /\ gi > Len(genes)
          /\ results # <<>>
          /\ pc' = "done"
    /\ text' # text => pc = "fetch"
    /\ genes' # genes => pc \in {"extract", "link"}
    /\ <<doc_sents', doc_ents'>> # <<doc_sents, doc_ents>> => pc = "ner"
    /\ <<meta', results'>> # <<meta, results>> => pc = "enrich"

\* C11: the control flow of a run is linear in the order fetch, extract, NER, link,
\* enrich, write: a stage starts only after the one before it has finished, no stage
\* is entered again once a later one has started, the CSV is written at most once and
\* only after the enrichment of every gene, and a run that ends early (no genes, or
\* no gene with a linked disease and an HGNC record) does no later stage and writes
\* no CSV.
C11_LinearControlFlow ==
    [](StagesInOrder /\ EarlyEndDoesNoMore) /\ [][StepInOrder]_vars

\* a run through all six stages: two genes enriched, the CSV written
C11_Witness ==
    /\ pc = "done"
    /\ Len(genes) = 2
    /\ Len(results) = 2
    /\ csv = <<results>>

(***************************************************************************)
(* The locality of the linker, on the loop over doc.ents.                  *)
(***************************************************************************)
\* gene g has a mention entirely inside the sentence of span e, or inside the
\* sentence right before or right after it
MentionedNear(g, e) ==
    \E k \in 1..NumSents :
        /\ k \in {SentenceOf(e) - 1, SentenceOf(e), SentenceOf(e) + 1}
        /\ MentionsInside(g, k) # {}

\* span e accounts for the name d on gene g
Justifies(e, g, d) ==
    /\ e.label = "DISEASE"
    /\ disease_name(e) = d
    /\ MentionedNear(g, e)

\* the last iteration left the gene list as it was but for one disease set, which
\* gained the name of the span
OneSetGrew ==
    \/ genes = genes0
    \/ \E i \in 1..Len(genes0) : RecordedOn(i)

\* C13: after any prefix of the spans, every disease name on a gene is accounted for
\* by a processed DISEASE span of that name with a mention of the gene inside its
\* sentence or a sentence next to it; a span adds its name to at most one gene, and
\* nothing of a gene record changes but its disease set, which only grows.
C13_Locality ==
    /\ \A i \in 1..Len(genes) : \A d \in genes[i].diseases :
          \E k \in 1..n_ents : Justifies(doc_ents[k], genes[i], d)
    /\ n_ents > 0 => OneSetGrew
    /\ Len(genes) = Len(genes0)
    /\ \A i \in 1..Len(genes) :
          /\ genes[i].symbol = genes0[i].symbol
          /\ genes[i].hgnc_id = genes0[i].hgnc_id
          /\ genes[i].mentions = genes0[i].mentions
          /\ genes0[i].diseases \subseteq genes[i].diseases

\* two spans processed: the first named a disease on one gene through the sentence
\* next to it, the second added another name to another gene
C13_Witness ==
    /\ n_ents = 2
    /\ Len(genes) = 2
    /\ genes[1].diseases # {} /\ genes[2].diseases # {}
    /\ genes[1].diseases # genes[2].diseases
    /\ \E i \in 1..2 : RecordedOn(i) /\ genes0[i].diseases = {}
    /\ \E i \in 1..2 : MentionsInside(genes[i], SentenceOf(doc_ents[1])) = {}
                       /\ disease_name(doc_ents[1]) \in genes[i].diseases

(***************************************************************************)
(* Claims about the SQLite loader.                                         *)
(***************************************************************************)
\* the tables after the statements of rows k.. have run on tables t without an error
RECURSIVE tables_after(_, _, _)
tables_after(t, rows, k) ==
    IF k > Len(rows) THEN t
    ELSE tables_after(process_row(t, rows[k], "none").tables, rows, k + 1)

LoaderFailed(where) == loader.pc = "exited" /\ loader.failed \in where

\* nothing is committed before the last row is done, and then once, all rows together
OneTransaction ==
    /\ loader.commits <= 1
    /\ loader.commits = 0 => loader.db = loader.db0
    /\ loader.commits = 1 =>
          /\ loader.status = "0"
          /\ loader.k = Len(loader.csv.rows) + 1
          /\ loader.db = tables_after(loader.db0, loader.csv.rows, 1)
    /\ loader.status = "0" => loader.commits = 1

\* the message, the rollback, the close and the exit status of a failed run
RolledBackAndClosed ==
    /\ loader.out = <<"Error processing data">>
    /\ loader.rollbacks = 1
    /\ loader.conn = "closed"
    /\ loader.status = "1"

\* C12 as stated: the loader is all-or-nothing over the rows of one CSV, one
\* transaction committed once after the last row; if reading the CSV or processing a
\* row fails, it prints a message, rolls back, closes the connection and exits with
\* status 1, and the tables hold the rows they held before the run.
C12_FailureRollsBackAndCloses ==
    loader.pc # "idle" =>
        /\ OneTransaction
        /\ LoaderFailed({"read", "row"}) =>
              /\ Len(loader.out) = 1
              /\ loader.rollbacks = 1
              /\ loader.conn = "closed"
              /\ loader.status = "1"
              /\ loader.db = loader.db0

\* C12, amended: the loader is all-or-nothing over the rows of one CSV, one
\* transaction committed once after the last row.  If the CSV is absent or cannot be
\* read, it prints a message and exits with status 1 before a connection is opened:
\* there is nothing to roll back or close.  If processing a row fails, it prints a
\* message, rolls back, closes the connection and exits with status 1.  Either way,
\* and on every other failure, the tables hold the rows they held before the run.
C12_AllOrNothing ==
    loader.pc # "idle" =>
        /\ OneTransaction
        /\ LoaderFailed({"read"}) =>
              /\ Len(loader.out) = 1
              /\ loader.rollbacks = 0
              /\ loader.conn = "none"
              /\ loader.status = "1"
        /\ LoaderFailed({"row", "ddl", "commit"}) => RolledBackAndClosed
        /\ loader.status = "1" => (loader.db = loader.db0 /\ loader.commits = 0)
        /\ loader.pc = "exited" => (loader.tx = <<>> /\ loader.status \in {"0", "1"})

\* the second row failed after the first had rewritten gene 7 in the transaction, and
\* the tables of the earlier run are back
C12_Witness ==
    /\ LoaderFailed({"row"})
    /\ loader.k = 2
    /\ extract_hgnc_number(loader.csv.rows[1].hgnc_id) = Value(7)
    /\ loader.db0 = EarlierTables
    /\ loader.db = EarlierTables
    /\ process_row(loader.db0, loader.csv.rows[1], "none").tables # loader.db0
    /\ loader.rollbacks = 1

====
